---- MODULE Spec2Model ----
(***************************************************************************)
(* DigiID (digiid-ts): the URI builder generateDigiIDUri and the callback  *)
(* verifier verifyDigiIDCallback, modelled on real strings.  The platform  *)
(* URL parser the code calls (new URL, .host, .pathname, .protocol,        *)
(* .searchParams.get) is modelled by what it does to the text: scheme      *)
(* lower-casing, authority splitting, default-port elision, host           *)
(* lower-casing for special schemes, "/" for an empty special path,        *)
(* dot-segment removal, and form-urlencoded decoding of query values.      *)
(***************************************************************************)
EXTENDS Integers, Sequences, FiniteSets, TLC

\* ------------------------------------------------------------------------
\* Text helpers (JavaScript string primitives used by the code)
\* ------------------------------------------------------------------------

\* s[i] as a one-character string ("" outside the string)
CharAt(s, i) == IF i >= 1 /\ i <= Len(s) THEN SubSeq(s, i, i) ELSE ""

\* s.slice(i-1): the text from position i to the end
From(s, i) == IF i > Len(s) THEN "" ELSE SubSeq(s, i, Len(s))

\* s.slice(0, i-1): the text before position i
Before(s, i) == IF i <= 1 THEN "" ELSE SubSeq(s, 1, i - 1)

\* s.startsWith(p)
StartsWith(s, p) == Len(s) >= Len(p) /\ SubSeq(s, 1, Len(p)) = p

\* s.endsWith(p)
EndsWith(s, p) == Len(s) >= Len(p) /\ SubSeq(s, Len(s) - Len(p) + 1, Len(s)) = p

\* 1-based position of character c in s at or after position i; 0 when absent
RECURSIVE IndexFrom(_, _, _)
IndexFrom(s, c, i) ==
    IF i > Len(s) THEN 0
    ELSE IF SubSeq(s, i, i) = c THEN i
    ELSE IndexFrom(s, c, i + 1)

IndexOf(s, c) == IndexFrom(s, c, 1)

\* the set of the characters of a text
Chars(s) == { SubSeq(s, k, k) : k \in 1..Len(s) }

\* 1-based position of the first character of s at or after position i that
\* is not in the set allowed; 0 when there is none
RECURSIVE FirstNotIn(_, _, _)
FirstNotIn(s, allowed, i) ==
    IF i > Len(s) THEN 0
    ELSE IF SubSeq(s, i, i) \notin allowed THEN i
    ELSE FirstNotIn(s, allowed, i + 1)

\* every character of s is in the set allowed
AllIn(s, allowed) == \A k \in 1..Len(s) : SubSeq(s, k, k) \in allowed

UpperAlpha == "ABCDEFGHIJKLMNOPQRSTUVWXYZ"
LowerAlpha == "abcdefghijklmnopqrstuvwxyz"
Digits == "0123456789"
HexDigits == "0123456789ABCDEF"
HexDigitsLower == "0123456789abcdef"

\* printable ASCII, code points 32 (space) to 95 (_), in order
AsciiLow ==
    " !\"#$%&'()*+,-./0123456789:;<=>?@ABCDEFGHIJKLMNOPQRSTUVWXYZ[\\]^_"

\* printable ASCII, code points 97 (a) to 126 (~), in order
AsciiHigh == "abcdefghijklmnopqrstuvwxyz{|}~"

\* the character with the given code; "" when the table has none
CharOfCode(code) ==
    IF code >= 32 /\ code <= 95 THEN SubSeq(AsciiLow, code - 31, code - 31)
    ELSE IF code >= 97 /\ code <= 126 THEN SubSeq(AsciiHigh, code - 96, code - 96)
    ELSE ""

\* ASCII lower-casing of one character
UpperSet == Chars(UpperAlpha)
LowerChar(c) ==
    IF c \in UpperSet
    THEN SubSeq(LowerAlpha, IndexOf(UpperAlpha, c), IndexOf(UpperAlpha, c))
    ELSE c

\* ASCII lower-casing of a text
RECURSIVE ToLower(_)
ToLower(s) ==
    IF s = "" THEN "" ELSE LowerChar(Head(s)) \o ToLower(Tail(s))

\* value of a hexadecimal digit, -1 when c is not one
HexVal(c) ==
    LET u == IndexOf(HexDigits, c)
        l == IndexOf(HexDigitsLower, c)
    IN IF u # 0 THEN u - 1 ELSE IF l # 0 THEN l - 1 ELSE -1

\* decimal value of a text of digits
RECURSIVE DecVal(_, _)
DecVal(s, acc) ==
    IF s = "" THEN acc
    ELSE DecVal(Tail(s), acc * 10 + (IndexOf(Digits, Head(s)) - 1))

\* percent-decoding: %XY with XY the code of a printable ASCII character is
\* replaced by that character; any other '%' stays as written
RECURSIVE PercentDecode(_)
PercentDecode(s) ==
    IF s = "" THEN ""
    ELSE IF Head(s) = "%" /\ Len(s) >= 3
            /\ HexVal(CharAt(s, 2)) >= 0 /\ HexVal(CharAt(s, 3)) >= 0
            /\ CharOfCode(HexVal(CharAt(s, 2)) * 16 + HexVal(CharAt(s, 3))) # ""
         THEN CharOfCode(HexVal(CharAt(s, 2)) * 16 + HexVal(CharAt(s, 3)))
                  \o PercentDecode(From(s, 4))
         ELSE Head(s) \o PercentDecode(Tail(s))

\* '+' replaced by a space (application/x-www-form-urlencoded)
RECURSIVE PlusToSpace(_)
PlusToSpace(s) ==
    IF s = "" THEN ""
    ELSE (IF Head(s) = "+" THEN " " ELSE Head(s)) \o PlusToSpace(Tail(s))

\* decimal text of a natural number (Number.prototype.toString)
RECURSIVE ToDecimal(_)
ToDecimal(n) ==
    IF n < 10 THEN SubSeq(Digits, n + 1, n + 1)
    ELSE ToDecimal(n \div 10) \o SubSeq(Digits, (n % 10) + 1, (n % 10) + 1)

\* ------------------------------------------------------------------------
\* The URL parser behind `new URL(text)` (WHATWG URL, no base URL).
\* Modelled on the input alphabet of this module: ASCII letters, digits and
\* : / ? # & = @ . - _ + %.  IPv6 and numeric (IPv4) hosts, tabs, newlines
\* and non-ASCII text are outside that alphabet.
\* ------------------------------------------------------------------------

AlphaChars == Chars(UpperAlpha \o LowerAlpha)
DigitChars == Chars(Digits)
SchemeChars == Chars(UpperAlpha \o LowerAlpha \o Digits \o "+-.")
HostChars == Chars(LowerAlpha \o Digits \o ".-_")
OpaqueHostChars == Chars(UpperAlpha \o LowerAlpha \o Digits \o ".-_%+")

\* the special schemes and their default ports
SpecialSchemes == {"http", "https", "ftp", "ws", "wss"}
DefaultPort(scheme) ==
    CASE scheme = "http" -> 80
      [] scheme = "ws" -> 80
      [] scheme = "https" -> 443
      [] scheme = "wss" -> 443
      [] scheme = "ftp" -> 21
      [] OTHER -> -1

\* the largest port number the parser accepts
MaxPort == 65535

\* the value a failed parse stands for: `new URL` throws TypeError("Invalid URL")
InvalidURL ==
    [ok |-> FALSE, protocol |-> "", host |-> "", pathname |-> "", search |-> ""]

\* the text after the last '@' of an authority (userinfo is not part of .host)
RECURSIVE StripUserinfo(_)
StripUserinfo(a) ==
    LET k == IndexOf(a, "@")
    IN IF k = 0 THEN a ELSE StripUserinfo(From(a, k + 1))

\* leading '/' characters removed (special schemes ignore authority slashes)
RECURSIVE StripSlashes(_)
StripSlashes(s) ==
    IF s # "" /\ Head(s) = "/" THEN StripSlashes(Tail(s)) ELSE s

\* the path text split at '/' into its segments
RECURSIVE SplitPath(_)
SplitPath(s) ==
    LET k == IndexOf(s, "/")
    IN IF k = 0 THEN <<s>> ELSE <<Before(s, k)>> \o SplitPath(From(s, k + 1))

\* the parser's path state: "." segments dropped, ".." removes the segment
\* before it, and either one in last position leaves an empty last segment
RECURSIVE ShortenPath(_, _)
ShortenPath(segs, out) ==
    IF segs = <<>> THEN out
    ELSE LET seg == Head(segs)
             last == Len(segs) = 1
         IN IF seg = ".."
            THEN LET popped == IF out = <<>> THEN out
                               ELSE SubSeq(out, 1, Len(out) - 1)
                 IN ShortenPath(Tail(segs),
                                IF last THEN Append(popped, "") ELSE popped)
            ELSE IF seg = "."
            THEN ShortenPath(Tail(segs), IF last THEN Append(out, "") ELSE out)
            ELSE ShortenPath(Tail(segs), Append(out, seg))

\* path serialisation: "/" before every segment
RECURSIVE JoinPath(_)
JoinPath(segs) ==
    IF segs = <<>> THEN "" ELSE "/" \o Head(segs) \o JoinPath(Tail(segs))

\* .pathname of a hierarchical path text ("" or beginning with '/')
NormalizePath(pathText, special) ==
    IF pathText = ""
    THEN (IF special THEN "/" ELSE "")
    ELSE JoinPath(ShortenPath(SplitPath(Tail(pathText)), <<>>))

\* the host and the port text of an authority without userinfo
HostText(hostport) ==
    IF IndexOf(hostport, ":") = 0 THEN hostport
    ELSE Before(hostport, IndexOf(hostport, ":"))
PortText(hostport) ==
    IF IndexOf(hostport, ":") = 0 THEN ""
    ELSE From(hostport, IndexOf(hostport, ":") + 1)

\* host and port validation; .host is the host plus ":port" unless the port
\* is absent or the scheme's default
HostPort(host, portText, scheme, special) ==
    IF ~(IF special THEN host # "" /\ AllIn(host, HostChars)
                    ELSE AllIn(host, OpaqueHostChars))
    THEN [ok |-> FALSE, host |-> ""]
    ELSE IF ~AllIn(portText, DigitChars)
    THEN [ok |-> FALSE, host |-> ""]
    ELSE IF portText # "" /\ DecVal(portText, 0) > MaxPort
    THEN [ok |-> FALSE, host |-> ""]
    ELSE [ok |-> TRUE,
          host |-> IF portText = "" \/ DecVal(portText, 0) = DefaultPort(scheme)
                   THEN host
                   ELSE host \o ":" \o ToDecimal(DecVal(portText, 0))]

\* host[:port] parsing: the host of a special scheme is percent-decoded and
\* lower-cased, that of any other scheme is kept as written
ParseHostPort(hostport, scheme, special) ==
    HostPort(IF special THEN ToLower(PercentDecode(HostText(hostport)))
             ELSE HostText(hostport),
             PortText(hostport), scheme, special)

\* a URL text without its fragment
StripFragment(s) ==
    IF IndexOf(s, "#") = 0 THEN s ELSE Before(s, IndexOf(s, "#"))

\* the part before the query, and the query with its '?' ("" when empty)
HierPart(s) ==
    IF IndexOf(s, "?") = 0 THEN s ELSE Before(s, IndexOf(s, "?"))
SearchPart(s) ==
    IF IndexOf(s, "?") = 0 \/ IndexOf(s, "?") = Len(s) THEN ""
    ELSE From(s, IndexOf(s, "?"))

\* the authority and the path of the text after the authority slashes
AuthorityOf(rest) ==
    IF IndexOf(rest, "/") = 0 THEN rest ELSE Before(rest, IndexOf(rest, "/"))
PathOf(rest) ==
    IF IndexOf(rest, "/") = 0 THEN "" ELSE From(rest, IndexOf(rest, "/"))

\* the URL record of a text with an authority, given its parsed host[:port]
BuildURL(scheme, special, hp, pathText, search) ==
    IF ~hp.ok THEN InvalidURL
    ELSE [ok |-> TRUE, protocol |-> scheme \o ":", host |-> hp.host,
          pathname |-> NormalizePath(pathText, special), search |-> search]

\* the text after "scheme:": a special scheme always has an authority, after
\* any number of slashes; another scheme has one only after "//", and
\* otherwise its whole text is the path
ParseAfterScheme(scheme, special, hier, search) ==
    IF special
    THEN BuildURL(scheme, special,
                  ParseHostPort(StripUserinfo(AuthorityOf(StripSlashes(hier))),
                                scheme, special),
                  PathOf(StripSlashes(hier)), search)
    ELSE IF StartsWith(hier, "//")
    THEN BuildURL(scheme, special,
                  ParseHostPort(StripUserinfo(AuthorityOf(From(hier, 3))),
                                scheme, special),
                  PathOf(From(hier, 3)), search)
    ELSE [ok |-> TRUE, protocol |-> scheme \o ":", host |-> "",
          pathname |-> IF StartsWith(hier, "/") THEN NormalizePath(hier, special)
                       ELSE hier,
          search |-> search]

\* the URL of a text whose scheme ends before position e (0: no scheme)
ParseScheme(text, e) ==
    IF ~(e > 1 /\ CharAt(text, e) = ":" /\ CharAt(text, 1) \in AlphaChars)
    THEN InvalidURL
    ELSE ParseAfterScheme(ToLower(Before(text, e)),
                          ToLower(Before(text, e)) \in SpecialSchemes,
                          HierPart(StripFragment(From(text, e + 1))),
                          SearchPart(StripFragment(From(text, e + 1))))

\* new URL(text): the fields the code reads (.protocol, .host, .pathname)
\* and the query text behind .searchParams
ParseURL(text) == ParseScheme(text, FirstNotIn(text, SchemeChars, 1))

\* the first pair of a query text and the text after it
FirstPair(query) ==
    IF IndexOf(query, "&") = 0 THEN query ELSE Before(query, IndexOf(query, "&"))
AfterFirstPair(query) ==
    IF IndexOf(query, "&") = 0 THEN "" ELSE From(query, IndexOf(query, "&") + 1)

\* the decoded name and value of a pair: split at the first '=', '+' becomes
\* a space and %XY is decoded
PairName(pair) ==
    PercentDecode(PlusToSpace(IF IndexOf(pair, "=") = 0 THEN pair
                              ELSE Before(pair, IndexOf(pair, "="))))
PairValue(pair) ==
    PercentDecode(PlusToSpace(IF IndexOf(pair, "=") = 0 THEN ""
                              ELSE From(pair, IndexOf(pair, "=") + 1)))

\* URLSearchParams.get(name) on the query text: the value of the first pair
\* named `name`, <<>> for null
RECURSIVE SearchParamsGet(_, _)
SearchParamsGet(query, name) ==
    IF query = "" THEN <<>>
    ELSE IF FirstPair(query) # "" /\ PairName(FirstPair(query)) = name
    THEN <<PairValue(FirstPair(query))>>
    ELSE SearchParamsGet(AfterFirstPair(query), name)

\* url.searchParams.get(name): .search without its leading '?'
searchParamsGet(url, name) ==
    SearchParamsGet(IF url.search = "" THEN "" ELSE Tail(url.search), name)

\* ------------------------------------------------------------------------
\* Values of the program
\* ------------------------------------------------------------------------

\* An optional property of an options object: <<>> when the property is
\* absent (undefined), <<v>> when it holds v.
Absent == <<>>
Some(v) == <<v>>
ValueOf(opt) == IF opt = <<>> THEN "undefined" ELSE opt[1]

\* JavaScript truthiness of an optional string: undefined and "" are falsy
Truthy(opt) == opt # <<>> /\ opt[1] # ""

\* JavaScript truthiness of an optional boolean
TruthyFlag(opt) == opt # <<>> /\ opt[1] = TRUE

\* new DigiIDError(message): name 'DigiIDError'.  `origin` names the function
\* whose `new` created the object, which tells one error instance of a call
\* from another.
DigiIDError(message, origin) ==
    [name |-> "DigiIDError", message |-> message, origin |-> origin]

\* an error that is not a DigiIDError
PlainError(name, message, origin) ==
    [name |-> name, message |-> message, origin |-> origin]

\* error instanceof DigiIDError
IsDigiIDError(error) == error.name = "DigiIDError"

\* the message of the TypeError `new URL` throws on a parse failure
InvalidURLMessage == "Invalid URL"

\* the TypeError of reading .host of undefined
UndefinedHostError ==
    PlainError("TypeError", "Cannot read properties of undefined (reading 'host')",
               "platform")

NoError == [name |-> "", message |-> "", origin |-> ""]

\* ------------------------------------------------------------------------
\* generateNonce / generateDigiIDUri
\* ------------------------------------------------------------------------

\* default of generateNonce's length parameter, in bytes
NonceBytes == 16

\* Buffer.toString('hex'): two lower-case hexadecimal digits a byte
RECURSIVE ToHex(_)
ToHex(bytes) ==
    IF bytes = <<>> THEN ""
    ELSE SubSeq(HexDigitsLower, (Head(bytes) \div 16) + 1, (Head(bytes) \div 16) + 1)
         \o SubSeq(HexDigitsLower, (Head(bytes) % 16) + 1, (Head(bytes) % 16) + 1)
         \o ToHex(Tail(bytes))

\* generateNonce(): randomBytes(16).toString('hex'); `bytes` is what the
\* random source returns
generateNonce(bytes) == ToHex(bytes)

\* throw new DigiIDError(message) in generateDigiIDUri; `drew` tells whether
\* the random source had been consulted by then
ThrowInGenerate(message, drew) ==
    [threw |-> TRUE, error |-> DigiIDError(message, "generateDigiIDUri"),
     uri |-> "", nonce |-> "", drew |-> drew]

\* (mutant) the flag is written the wrong way round
generateWithNonceFlagSwapped(options, parsedUrl, nonce) ==
    IF TruthyFlag(options.unsecure) /\ parsedUrl.protocol # "http:"
    THEN ThrowInGenerate("Unsecure flag is true, but callback URL does not use http protocol.",
                         ~Truthy(options.nonce))
    ELSE IF ~TruthyFlag(options.unsecure) /\ parsedUrl.protocol # "https:"
    THEN ThrowInGenerate("Callback URL must use https protocol unless unsecure flag is set to true.",
                         ~Truthy(options.nonce))
    ELSE [threw |-> FALSE, error |-> NoError,
          uri |-> "digiid://" \o (parsedUrl.host \o parsedUrl.pathname) \o "?x=" \o nonce
                  \o "&u=" \o (IF TruthyFlag(options.unsecure) THEN "0" ELSE "1"),
          nonce |-> nonce, drew |-> ~Truthy(options.nonce)]

\* (mutant) with unsecure set, any scheme is accepted
generateWithNonceAnyUnsecureScheme(options, parsedUrl, nonce) ==
    IF ~TruthyFlag(options.unsecure) /\ parsedUrl.protocol # "https:"
    THEN ThrowInGenerate("Callback URL must use https protocol unless unsecure flag is set to true.",
                         ~Truthy(options.nonce))
    ELSE [threw |-> FALSE, error |-> NoError,
          uri |-> "digiid://" \o (parsedUrl.host \o parsedUrl.pathname) \o "?x=" \o nonce
                  \o "&u=" \o (IF TruthyFlag(options.unsecure) THEN "1" ELSE "0"),
          nonce |-> nonce, drew |-> ~Truthy(options.nonce)]

\* (mutant) the query of the callback URL is kept in the URI
generateWithNonceKeepsQuery(options, parsedUrl, nonce) ==
    IF TruthyFlag(options.unsecure) /\ parsedUrl.protocol # "http:"
    THEN ThrowInGenerate("Unsecure flag is true, but callback URL does not use http protocol.",
                         ~Truthy(options.nonce))
    ELSE IF ~TruthyFlag(options.unsecure) /\ parsedUrl.protocol # "https:"
    THEN ThrowInGenerate("Callback URL must use https protocol unless unsecure flag is set to true.",
                         ~Truthy(options.nonce))
    ELSE [threw |-> FALSE, error |-> NoError,
          uri |-> "digiid://" \o (parsedUrl.host \o parsedUrl.pathname \o parsedUrl.search)
                  \o "?x=" \o nonce
                  \o "&u=" \o (IF TruthyFlag(options.unsecure) THEN "1" ELSE "0"),
          nonce |-> nonce, drew |-> ~Truthy(options.nonce)]

\* generateDigiIDUri from the nonce on: the scheme validation and the URI
generateWithNonce(options, parsedUrl, nonce) ==
    IF TruthyFlag(options.unsecure) /\ parsedUrl.protocol # "http:"
    THEN ThrowInGenerate("Unsecure flag is true, but callback URL does not use http protocol.",
                         ~Truthy(options.nonce))
    ELSE IF ~TruthyFlag(options.unsecure) /\ parsedUrl.protocol # "https:"
    THEN ThrowInGenerate("Callback URL must use https protocol unless unsecure flag is set to true.",
                         ~Truthy(options.nonce))
    ELSE [threw |-> FALSE, error |-> NoError,
          uri |-> "digiid://" \o (parsedUrl.host \o parsedUrl.pathname) \o "?x=" \o nonce
                  \o "&u=" \o (IF TruthyFlag(options.unsecure) THEN "1" ELSE "0"),
          nonce |-> nonce, drew |-> ~Truthy(options.nonce)]

\* (mutant) the scheme is validated before the parse failure is reported
generateFromParsedSchemeFirst(options, parsedUrl, bytes) ==
    IF ~TruthyFlag(options.unsecure) /\ parsedUrl.protocol # "https:"
    THEN ThrowInGenerate("Callback URL must use https protocol unless unsecure flag is set to true.",
                         FALSE)
    ELSE IF ~parsedUrl.ok
    THEN ThrowInGenerate("Invalid callback URL: " \o InvalidURLMessage, FALSE)
    ELSE generateWithNonce(options, parsedUrl,
                           IF Truthy(options.nonce) THEN ValueOf(options.nonce)
                           ELSE generateNonce(bytes))

\* generateDigiIDUri from the parsed callback URL on
generateFromParsed(options, parsedUrl, bytes) ==
    IF ~parsedUrl.ok
    THEN ThrowInGenerate("Invalid callback URL: " \o InvalidURLMessage, FALSE)
    ELSE generateWithNonce(options, parsedUrl,
                           IF Truthy(options.nonce) THEN ValueOf(options.nonce)
                           ELSE generateNonce(bytes))

\* generateDigiIDUri(options): the returned URI or the thrown error, the
\* nonce used, and whether the random source was consulted
generateDigiIDUri(options, bytes) ==
    IF ~Truthy(options.callbackUrl)
    THEN ThrowInGenerate("Callback URL is required.", FALSE)
    ELSE generateFromParsed(options, ParseURL(ValueOf(options.callbackUrl)), bytes)

\* ------------------------------------------------------------------------
\* verifyDigiIDCallback
\* ------------------------------------------------------------------------

\* uri.replace(/^digiid:/, 'http:')
ReplaceScheme(uri) ==
    IF StartsWith(uri, "digiid:") THEN "http:" \o From(uri, 8) ELSE uri

\* The expected callback URL as the caller passes it: a string, a URL object
\* (made by `new URL(text)` of a parseable text) or nothing at all.
ExpectedString(text) == [type |-> "string", text |-> text]
ExpectedURL(text) == [type |-> "URL", text |-> text]
ExpectedUndefined == [type |-> "undefined", text |-> ""]

\* (mutant) the presence check forgets the signature
MissingCallbackDataNoSignature(callbackData) ==
    ~Truthy(callbackData.address) \/ ~Truthy(callbackData.uri)

\* !address || !uri || !signature
MissingCallbackData(callbackData) ==
    ~Truthy(callbackData.address) \/ ~Truthy(callbackData.uri)
        \/ ~Truthy(callbackData.signature)

\* (mutant) only the nonce parameter is required
MissingParameterNonceOnly(receivedNonce, receivedUnsecure) ==
    receivedNonce = <<>>

\* receivedNonce === null || receivedUnsecure === null
MissingParameter(receivedNonce, receivedUnsecure) ==
    receivedNonce = <<>> \/ receivedUnsecure = <<>>

\* (mutant) the endpoints are compared without regard to case
EndpointDiffersIgnoringCase(receivedDomainAndPath, expectedDomainAndPath) ==
    ToLower(receivedDomainAndPath) # ToLower(expectedDomainAndPath)

\* receivedDomainAndPath !== expectedDomainAndPath
EndpointDiffers(receivedDomainAndPath, expectedDomainAndPath) ==
    receivedDomainAndPath # expectedDomainAndPath

\* The scheme consistency check: the message of the error it throws, "" when
\* it throws none.
SchemeCheck(receivedUnsecure, expectedScheme) ==
    IF receivedUnsecure = "1" /\ expectedScheme # "http:"
    THEN "URI indicates unsecure (u=1), but expectedCallbackUrl is not http."
    ELSE IF receivedUnsecure = "0" /\ expectedScheme # "https:"
    THEN "URI indicates secure (u=0), but expectedCallbackUrl is not https."
    ELSE ""

\* (mutant) the nonce check is skipped
NonceDiffersNever(expectedNonce, receivedNonce) == FALSE

\* (mutant) the nonce is compared even when expectedNonce is omitted
NonceDiffersAlways(expectedNonce, receivedNonce) ==
    receivedNonce # (IF expectedNonce = <<>> THEN "" ELSE expectedNonce[1])

\* expectedNonce && receivedNonce !== expectedNonce
NonceDiffers(expectedNonce, receivedNonce) ==
    Truthy(expectedNonce) /\ receivedNonce # ValueOf(expectedNonce)

\* (mutant) the signature is checked against the uri after scheme substitution
SignatureArgumentsSubstituted(callbackData) ==
    [uri |-> ReplaceScheme(ValueOf(callbackData.uri)),
     address |-> ValueOf(callbackData.address),
     signature |-> ValueOf(callbackData.signature)]

\* the arguments of the call _internalVerifySignature(uri, address, signature)
SignatureArguments(callbackData) ==
    [uri |-> ValueOf(callbackData.uri),
     address |-> ValueOf(callbackData.address),
     signature |-> ValueOf(callbackData.signature)]

\* an error thrown by verifyDigiIDCallback before the signature check
ThrowInVerify(error) == [threw |-> TRUE, error |-> error, receivedNonce |-> ""]
FailVerify(message) == ThrowInVerify(DigiIDError(message, "verifyDigiIDCallback"))

\* (mutant) the nonce handed on is the caller's expectation
checkAgainstExpectedEchoesExpectation(expectedNonce, receivedNonce, receivedUnsecure, receivedDomainAndPath, expectedDomainAndPath, expectedScheme) ==
    IF EndpointDiffers(receivedDomainAndPath, expectedDomainAndPath)
    THEN FailVerify("Callback URL mismatch: URI contained \""
                    \o receivedDomainAndPath \o "\", expected \""
                    \o expectedDomainAndPath \o "\"")
    ELSE IF SchemeCheck(receivedUnsecure, expectedScheme) # ""
    THEN FailVerify(SchemeCheck(receivedUnsecure, expectedScheme))
    ELSE IF NonceDiffers(expectedNonce, receivedNonce)
    THEN FailVerify("Nonce mismatch: URI contained \"" \o receivedNonce
                    \o "\", expected \"" \o ValueOf(expectedNonce)
                    \o "\". Possible replay attack.")
    ELSE [threw |-> FALSE, error |-> NoError, receivedNonce |-> ValueOf(expectedNonce)]

\* (mutant) the nonce is checked before the endpoint and the scheme
checkAgainstExpectedNonceFirst(expectedNonce, receivedNonce, receivedUnsecure, receivedDomainAndPath, expectedDomainAndPath, expectedScheme) ==
    IF NonceDiffers(expectedNonce, receivedNonce)
    THEN FailVerify("Nonce mismatch: URI contained \"" \o receivedNonce
                    \o "\", expected \"" \o ValueOf(expectedNonce)
                    \o "\". Possible replay attack.")
    ELSE IF EndpointDiffers(receivedDomainAndPath, expectedDomainAndPath)
    THEN FailVerify("Callback URL mismatch: URI contained \""
                    \o receivedDomainAndPath \o "\", expected \""
                    \o expectedDomainAndPath \o "\"")
    ELSE IF SchemeCheck(receivedUnsecure, expectedScheme) # ""
    THEN FailVerify(SchemeCheck(receivedUnsecure, expectedScheme))
    ELSE [threw |-> FALSE, error |-> NoError, receivedNonce |-> receivedNonce]

\* verifyDigiIDCallback from the endpoint check to the nonce check
checkAgainstExpected(expectedNonce, receivedNonce, receivedUnsecure, receivedDomainAndPath, expectedDomainAndPath, expectedScheme) ==
    IF EndpointDiffers(receivedDomainAndPath, expectedDomainAndPath)
    THEN FailVerify("Callback URL mismatch: URI contained \""
                    \o receivedDomainAndPath \o "\", expected \""
                    \o expectedDomainAndPath \o "\"")
    ELSE IF SchemeCheck(receivedUnsecure, expectedScheme) # ""
    THEN FailVerify(SchemeCheck(receivedUnsecure, expectedScheme))
    ELSE IF NonceDiffers(expectedNonce, receivedNonce)
    THEN FailVerify("Nonce mismatch: URI contained \"" \o receivedNonce
                    \o "\", expected \"" \o ValueOf(expectedNonce)
                    \o "\". Possible replay attack.")
    ELSE [threw |-> FALSE, error |-> NoError, receivedNonce |-> receivedNonce]

\* verifyDigiIDCallback at the parse of expectedCallbackUrl: a string is
\* parsed, anything else is taken for a URL object as it is
checkExpectedUrl(verifyOptions, receivedNonce, receivedUnsecure, receivedDomainAndPath, parsedExpectedUrl) ==
    IF verifyOptions.expectedCallbackUrl.type = "string" /\ ~parsedExpectedUrl.ok
    THEN FailVerify("Invalid expectedCallbackUrl provided: " \o InvalidURLMessage)
    ELSE IF verifyOptions.expectedCallbackUrl.type = "undefined"
    THEN ThrowInVerify(UndefinedHostError)
    ELSE checkAgainstExpected(verifyOptions.expectedNonce, receivedNonce,
                              receivedUnsecure, receivedDomainAndPath,
                              parsedExpectedUrl.host \o parsedExpectedUrl.pathname,
                              parsedExpectedUrl.protocol)

\* verifyDigiIDCallback at the x/u check
checkParameters(verifyOptions, receivedNonce, receivedUnsecure, receivedDomainAndPath) ==
    IF MissingParameter(receivedNonce, receivedUnsecure)
    THEN FailVerify("URI missing nonce (x) or unsecure (u) parameter.")
    ELSE checkExpectedUrl(verifyOptions, ValueOf(receivedNonce),
                          ValueOf(receivedUnsecure), receivedDomainAndPath,
                          ParseURL(verifyOptions.expectedCallbackUrl.text))

\* verifyDigiIDCallback at the parse of the received uri
checkReceivedUri(verifyOptions, parsedReceivedUri) ==
    IF ~parsedReceivedUri.ok
    THEN FailVerify("Invalid URI received in callback: " \o InvalidURLMessage)
    ELSE checkParameters(verifyOptions,
                         searchParamsGet(parsedReceivedUri, "x"),
                         searchParamsGet(parsedReceivedUri, "u"),
                         parsedReceivedUri.host \o parsedReceivedUri.pathname)

\* The synchronous part of verifyDigiIDCallback, up to the call of
\* _internalVerifySignature: the error thrown by the first failing check, or
\* the nonce read from the uri when every check passes.
verifyChecks(callbackData, verifyOptions) ==
    IF MissingCallbackData(callbackData)
    THEN FailVerify("Missing required callback data: address, uri, or signature.")
    ELSE checkReceivedUri(verifyOptions,
                          ParseURL(ReplaceScheme(ValueOf(callbackData.uri))))

\* What the digibyte-message library does inside _internalVerifySignature:
\* require() fails, Message/verify throws, or verify returns a value that is
\* truthy or falsy.
LibraryOutcomes ==
    { [kind |-> "returns", value |-> TRUE, message |-> ""],
      [kind |-> "returns", value |-> FALSE, message |-> ""],
      [kind |-> "verify throws", value |-> FALSE, message |-> "Malformed signature"],
      [kind |-> "require throws", value |-> FALSE,
       message |-> "Cannot find module 'digibyte-message'"] }

\* _internalVerifySignature(uri, address, signature): what its promise
\* settles with.  require() is outside the try block, so its error is not
\* wrapped; an error of Message or verify is wrapped in a DigiIDError.
internalVerifySignature(library) ==
    IF library.kind = "require throws"
    THEN [threw |-> TRUE, value |-> FALSE,
          error |-> PlainError("Error", library.message, "platform")]
    ELSE IF library.kind = "verify throws"
    THEN [threw |-> TRUE, value |-> FALSE,
          error |-> DigiIDError("Signature verification failed: " \o library.message,
                                "_internalVerifySignature")]
    ELSE [threw |-> FALSE, value |-> library.value, error |-> NoError]

Pending == [state |-> "pending", isValid |-> FALSE, address |-> "", nonce |-> "",
            error |-> NoError]
Resolved(address, nonce) ==
    [state |-> "resolved", isValid |-> TRUE, address |-> address, nonce |-> nonce,
     error |-> NoError]
Rejected(error) ==
    [state |-> "rejected", isValid |-> FALSE, address |-> "", nonce |-> "",
     error |-> error]

\* (mutant) every caught error is wrapped, a DigiIDError too
ClassifyCaughtAlwaysWrap(error) ==
    DigiIDError("Unexpected error during signature verification: " \o error.message,
                "verifyDigiIDCallback")

\* (mutant) every caught error is re-thrown as it is
ClassifyCaughtNeverWrap(error) == error

\* The catch block around the signature check: a DigiIDError is re-thrown as
\* it is (the same object), any other error is wrapped in a new DigiIDError
\* that embeds its message.
ClassifyCaught(error) ==
    IF IsDigiIDError(error) THEN error
    ELSE DigiIDError("Unexpected error during signature verification: " \o error.message,
                     "verifyDigiIDCallback")

\* (mutant) a false signature check is let through
verifyAfterSignatureLenient(helper, address, nonce) ==
    IF helper.threw
    THEN Rejected(ClassifyCaught(helper.error))
    ELSE Resolved(address, nonce)

\* The rest of verifyDigiIDCallback, after the await: an error thrown by
\* _internalVerifySignature, or the 'Invalid signature.' error thrown inside
\* the same try block on a false result, goes through the catch block; a
\* true result gives the returned object.
verifyAfterSignature(helper, address, nonce) ==
    IF helper.threw
    THEN Rejected(ClassifyCaught(helper.error))
    ELSE IF ~helper.value
    THEN Rejected(ClassifyCaught(DigiIDError("Invalid signature.", "verifyDigiIDCallback")))
    ELSE Resolved(address, nonce)

\* ------------------------------------------------------------------------
\* Inputs
\* ------------------------------------------------------------------------

Address == "D7dVskXFpH8gTgZG9sN3d6dPUbJtZfJ2Vc"
Signature == "AAECAwQFBgcICQoLDA0ODxAREhMUFRYXGBkaGxwdHh8gISIjJCUmJygpKissLS4vMDEyMzQ1Njc4"

\* what the random source may return: 16 bytes
RandomInputs ==
    { [i \in 1..NonceBytes |-> 97],
      [i \in 1..NonceBytes |-> (i * 37) % 256] }

\* options.callbackUrl of generateDigiIDUri
CallbackUrlInputs ==
    { Absent, Some(""),
      Some("https://example.com/callback"),
      Some("http://example.com/callback"),
      Some("http://localhost:3000/login"),
      Some("https://sub.domain.org/deep/path/auth"),
      Some("https://example.com"),
      Some("https://example.com/callback/"),
      Some("https://example.com:8443/callback"),
      Some("https://example.com:80/callback"),
      Some("https://EXAMPLE.com/callback"),
      Some("https://example.com/callback?next=home#top"),
      Some("ftp://example.com/callback"),
      Some("invalid-url") }

\* options.nonce of generateDigiIDUri
NonceInputs ==
    { Absent, Some(""), Some("abc123"), Some("my-custom-nonce-123"), Some("a%62c+123") }

\* options.unsecure of generateDigiIDUri
UnsecureInputs == { Absent, Some(FALSE), Some(TRUE) }

GenerateInputs ==
    [callbackUrl : CallbackUrlInputs, nonce : NonceInputs, unsecure : UnsecureInputs]

\* callbackData.uri as a wallet (or anyone else) may send it
UriInputs ==
    { Absent, Some(""),
      Some("digiid://example.com/callback?x=abc123&u=0"),
      Some("digiid://example.com/callback?x=abc123&u=1"),
      Some("digiid://example.com/callback?x=abc123&u=2"),
      Some("digiid://example.com/callback?x=zzz999&u=0"),
      Some("digiid://example.com/callback?x=a%62c123&u=0"),
      Some("digiid://example.com/callback?x=&u=0"),
      Some("digiid://example.com/callback?u=0"),
      Some("digiid://example.com/callback?x=abc123"),
      Some("digiid://example.com/callback"),
      Some("invalid-uri-format"),
      Some("digiid://?x=abc123&u=0"),
      Some("digiid://EXAMPLE.com/callback?x=abc123&u=0"),
      Some("digiid://example.com/Callback?x=abc123&u=0"),
      Some("digiid://example.com/a/../callback?x=abc123&u=0"),
      Some("digiid://example.com:8443/callback?x=abc123&u=0"),
      Some("digiid://example.com:80/callback?x=abc123&u=0"),
      Some("digiid://different.com/callback?x=abc123&u=0"),
      Some("digiid://example.com/callback/?x=abc123&u=0"),
      Some("digiid://example.com?x=abc123&u=0"),
      Some("digiid:example.com/callback?x=abc123&u=0"),
      Some("DIGIID://example.com/callback?x=abc123&u=0"),
      Some("https://example.com/callback?x=abc123&u=0") }

CallbackDataInputs ==
    [address : {Absent, Some(""), Some(Address)},
     uri : UriInputs,
     signature : {Absent, Some(""), Some(Signature)}]

\* verifyOptions.expectedCallbackUrl
ExpectedCallbackUrlInputs ==
    { ExpectedString("https://example.com/callback"),
      ExpectedString("http://example.com/callback"),
      ExpectedString("ftp://example.com/callback"),
      ExpectedString("https://different.com/callback"),
      ExpectedString("https://EXAMPLE.com/callback"),
      ExpectedString("https://example.com:8443/callback"),
      ExpectedString("https://example.com:80/callback"),
      ExpectedString("https://example.com/callback/"),
      ExpectedString("https://example.com"),
      ExpectedString("invalid-url"),
      ExpectedURL("https://example.com/callback"),
      ExpectedURL("http://example.com/callback"),
      ExpectedUndefined }

\* verifyOptions.expectedNonce
ExpectedNonceInputs ==
    { Absent, Some(""), Some("abc123"), Some("zzz999"), Some("a%62c123") }

VerifyOptionsInputs ==
    [expectedCallbackUrl : ExpectedCallbackUrlInputs, expectedNonce : ExpectedNonceInputs]

\* ------------------------------------------------------------------------
\* State
\* ------------------------------------------------------------------------

VARIABLES
    pc,            \* "idle", "generated", "awaiting" (the signature check), "settled"
    generated,     \* the last generateDigiIDUri call: its options and its outcome
    callbackData,  \* the payload of the verifyDigiIDCallback call in progress
    verifyOptions, \* its options
    receivedNonce, \* its local receivedNonce, kept across the await
    signatureCalls,\* the calls of _internalVerifySignature it has made
    outcome,       \* what its promise has settled with
    library,       \* what the signature library did in this call
    mutated,       \* the field changed since generation: "none", "endpoint", "flag", "nonce"
    regenerated,   \* the outcome of a second generateDigiIDUri call with the same options
    calls          \* the verifyDigiIDCallback calls in flight at the same time, by call

vars == <<pc, generated, callbackData, verifyOptions, receivedNonce,
          signatureCalls, outcome, library, mutated, regenerated, calls>>

NoGeneration ==
    [called |-> FALSE,
     options |-> [callbackUrl |-> Absent, nonce |-> Absent, unsecure |-> Absent],
     result |-> [threw |-> FALSE, error |-> NoError, uri |-> "", nonce |-> "",
                 drew |-> FALSE]]
NoCallbackData == [address |-> Absent, uri |-> Absent, signature |-> Absent]
NoVerifyOptions == [expectedCallbackUrl |-> ExpectedUndefined, expectedNonce |-> Absent]
NoLibrary == [kind |-> "not called", value |-> FALSE, message |-> ""]
NoRegeneration == NoGeneration.result

\* how many verifyDigiIDCallback calls are in flight at the same time
MaxCalls == 2
CallIds == 1..MaxCalls

\* the locals of one verifyDigiIDCallback call among several: each
\* invocation of the async function has its own
NoCall ==
    [pc |-> "idle", callbackData |-> NoCallbackData, verifyOptions |-> NoVerifyOptions,
     receivedNonce |-> "", outcome |-> Pending, library |-> NoLibrary]
NoCalls == [i \in CallIds |-> NoCall]

Init ==
    /\ pc = "idle"
    /\ generated = NoGeneration
    /\ callbackData = NoCallbackData
    /\ verifyOptions = NoVerifyOptions
    /\ receivedNonce = ""
    /\ signatureCalls = <<>>
    /\ outcome = Pending
    /\ library = NoLibrary
    /\ mutated = "none"
    /\ regenerated = NoRegeneration
    /\ calls = NoCalls

\* ------------------------------------------------------------------------
\* Operations
\* ------------------------------------------------------------------------

\* A call generateDigiIDUri(options), with `bytes` what randomBytes would return
Generate(options, bytes) ==
    /\ pc = "idle"
    /\ pc' = "generated"
    /\ generated' = [called |-> TRUE, options |-> options,
                     result |-> generateDigiIDUri(options, bytes)]
    /\ UNCHANGED <<callbackData, verifyOptions, receivedNonce, signatureCalls,
                   outcome, library, mutated, regenerated, calls>>

\* A second call generateDigiIDUri(options) with the options of the last
\* one, after it or after the verification that followed it; `bytes` is what
\* randomBytes would return this time
GenerateAgain(bytes) ==
    /\ pc \in {"generated", "settled"}
    /\ generated.called
    /\ pc' = "regenerated"
    /\ regenerated' = generateDigiIDUri(generated.options, bytes)
    /\ UNCHANGED <<generated, callbackData, verifyOptions, receivedNonce,
                   signatureCalls, outcome, library, mutated, calls>>

\* (mutant) the call suspends on the signature check before its checks are
\* decided
BeginVerifySuspendsFirst(data, options) ==
    \E checks \in {verifyChecks(data, options)} :
       /\ callbackData' = data
       /\ verifyOptions' = options
       /\ library' = NoLibrary
       /\ pc' = "awaiting"
       /\ outcome' = Pending
       /\ receivedNonce' = checks.receivedNonce
       /\ signatureCalls' = <<SignatureArguments(data)>>

\* verifyDigiIDCallback(data, options) from its entry to its first await:
\* the checks run, and either the promise is rejected or
\* _internalVerifySignature is called once and awaited
BeginVerify(data, options) ==
    \E checks \in {verifyChecks(data, options)} :
       /\ callbackData' = data
       /\ verifyOptions' = options
       /\ library' = NoLibrary
       /\ IF checks.threw
          THEN /\ pc' = "settled"
               /\ outcome' = Rejected(checks.error)
               /\ receivedNonce' = ""
               /\ signatureCalls' = <<>>
          ELSE /\ pc' = "awaiting"
               /\ outcome' = Pending
               /\ receivedNonce' = checks.receivedNonce
               /\ signatureCalls' = <<SignatureArguments(data)>>

\* A call verifyDigiIDCallback(data, options) on a callback of any content
Verify(data, options) ==
    /\ pc = "idle"
    /\ BeginVerify(data, options)
    /\ UNCHANGED <<generated, mutated, regenerated, calls>>

\* The callback a relying party verifies for the challenge it has just
\* generated: the wallet returns the generated URI, and the caller expects
\* the callback URL and the nonce it generated the URI with.
IssuedCallbackData(gen) ==
    [address |-> Some(Address), uri |-> Some(gen.result.uri), signature |-> Some(Signature)]
IssuedVerifyOptions(gen) ==
    [expectedCallbackUrl |-> ExpectedString(ValueOf(gen.options.callbackUrl)),
     expectedNonce |-> IF gen.options.nonce = Absent
                       THEN Some(gen.result.nonce) ELSE gen.options.nonce]

\* A generated URI with its nonce and flag replaced
TamperUri(uri, nonce, flag) ==
    Before(uri, IndexOf(uri, "?")) \o "?x=" \o nonce \o "&u=" \o flag

\* the flag written at the end of a generated URI
FlagOf(uri) == CharAt(uri, Len(uri))

\* One field changed between generation and verification.  `field` is the
\* field, `side` the place of the change (the uri of the payload or the
\* caller's expectation) and `value` the new value.
Mutations ==
    { [field |-> "none", side |-> "none", value |-> ""] }
    \cup [field : {"flag"}, side : {"uri"}, value : {"0", "1", "2"}]
    \cup [field : {"nonce"}, side : {"uri", "expected"},
          value : {"", "abc123", "zzz999", "my-custom-nonce-123"}]
    \cup [field : {"endpoint"}, side : {"expected"},
          value : {"https://different.com/callback", "http://different.com/callback",
                   "https://example.com/other", "http://example.com/other",
                   "http://localhost:3000/other"}]

\* the mutation changes the value of its field, and leaves the scheme alone
ChangesField(gen, m) ==
    CASE m.field = "none" -> TRUE
      [] m.field = "flag" -> m.value # FlagOf(gen.result.uri)
      [] m.field = "nonce" ->
            /\ m.value # gen.result.nonce
            /\ m.value # ValueOf(IssuedVerifyOptions(gen).expectedNonce)
      [] m.field = "endpoint" ->
            ParseURL(m.value).protocol = ParseURL(ValueOf(gen.options.callbackUrl)).protocol

MutatedCallbackData(gen, m) ==
    IF m.side = "uri"
    THEN [IssuedCallbackData(gen) EXCEPT
            !.uri = Some(TamperUri(gen.result.uri,
                                   IF m.field = "nonce" THEN m.value ELSE gen.result.nonce,
                                   IF m.field = "flag" THEN m.value
                                   ELSE FlagOf(gen.result.uri)))]
    ELSE IssuedCallbackData(gen)

MutatedVerifyOptions(gen, m) ==
    IF m.side = "expected"
    THEN IF m.field = "nonce"
         THEN [IssuedVerifyOptions(gen) EXCEPT !.expectedNonce = Some(m.value)]
         ELSE [IssuedVerifyOptions(gen) EXCEPT !.expectedCallbackUrl = ExpectedString(m.value)]
    ELSE IssuedVerifyOptions(gen)

\* verifyDigiIDCallback on the callback for the generated challenge, with at
\* most one field changed since generation
VerifyIssued(m) ==
    /\ pc = "generated"
    /\ ~generated.result.threw
    /\ ChangesField(generated, m)
    /\ BeginVerify(MutatedCallbackData(generated, m), MutatedVerifyOptions(generated, m))
    /\ mutated' = m.field
    /\ UNCHANGED <<generated, regenerated, calls>>

\* (mutant) the signature check completes but the call stays suspended
SignatureSettlesStalls(lib) ==
    /\ pc = "awaiting"
    /\ pc' = "awaiting"
    /\ library' = lib
    /\ UNCHANGED <<generated, callbackData, verifyOptions, receivedNonce,
                   signatureCalls, outcome, mutated, regenerated, calls>>

\* The promise of _internalVerifySignature settles and verifyDigiIDCallback
\* runs to its end
SignatureSettles(lib) ==
    /\ pc = "awaiting"
    /\ pc' = "settled"
    /\ library' = lib
    /\ outcome' = verifyAfterSignature(internalVerifySignature(lib),
                                       ValueOf(callbackData.address), receivedNonce)
    /\ UNCHANGED <<generated, callbackData, verifyOptions, receivedNonce,
                   signatureCalls, mutated, regenerated, calls>>

\* The call is over and its values are gone: the library keeps nothing
Return ==
    /\ pc \in {"generated", "settled", "regenerated"}
    /\ pc' = "idle"
    /\ generated' = NoGeneration
    /\ callbackData' = NoCallbackData
    /\ verifyOptions' = NoVerifyOptions
    /\ receivedNonce' = ""
    /\ signatureCalls' = <<>>
    /\ outcome' = Pending
    /\ library' = NoLibrary
    /\ mutated' = "none"
    /\ regenerated' = NoRegeneration
    /\ UNCHANGED calls

Next ==
    \/ /\ pc = "idle"
       /\ \E options \in GenerateInputs, bytes \in RandomInputs : Generate(options, bytes)
    \/ /\ pc = "idle"
       /\ \E data \in CallbackDataInputs, options \in VerifyOptionsInputs :
             Verify(data, options)
    \/ /\ pc = "generated"
       /\ \E m \in Mutations : VerifyIssued(m)
    \/ /\ pc = "awaiting"
       /\ \E lib \in LibraryOutcomes : SignatureSettles(lib)
    \/ /\ pc \in {"generated", "settled"}
       /\ \E bytes \in RandomInputs : GenerateAgain(bytes)
    \/ Return

Spec == Init /\ [][Next]_vars
\* ------------------------------------------------------------------------
\* Several verifyDigiIDCallback calls in flight
\* ------------------------------------------------------------------------

\* the payloads and options of the concurrent calls
ConcurrentCallbackData ==
    { [address |-> Some(Address), uri |-> Some(u), signature |-> Some(Signature)] :
         u \in { "digiid://example.com/callback?x=abc123&u=0",
                 "digiid://example.com/callback?x=zzz999&u=0" } }
    \cup { [address |-> Some("DOtherAddress"),
            uri |-> Some("digiid://example.com/callback?x=abc123&u=0"),
            signature |-> Some("")] }
ConcurrentVerifyOptions ==
    { [expectedCallbackUrl |-> ExpectedString("https://example.com/callback"),
       expectedNonce |-> n] : n \in { Absent, Some("abc123") } }

\* (mutant) the locals live in one place shared by every call: the slot of
\* the first call
LocalsAfterAwaitShared(i) == calls[1]

\* The locals a call reads when it resumes after the await: its own
\* address and receivedNonce, captured by its own invocation.
LocalsAfterAwait(i) == calls[i]

\* Call i of verifyDigiIDCallback(data, options), from its entry to its
\* first await
CallVerify(i, data, options) ==
    /\ calls[i].pc = "idle"
    /\ \E checks \in {verifyChecks(data, options)} :
          calls' = [calls EXCEPT ![i] =
                       [pc |-> IF checks.threw THEN "settled" ELSE "awaiting",
                        callbackData |-> data,
                        verifyOptions |-> options,
                        receivedNonce |-> checks.receivedNonce,
                        outcome |-> IF checks.threw THEN Rejected(checks.error)
                                    ELSE Pending,
                        library |-> NoLibrary]]
    /\ UNCHANGED <<pc, generated, callbackData, verifyOptions, receivedNonce,
                   signatureCalls, outcome, library, mutated, regenerated>>

\* The signature check of call i settles and the call runs to its end
CallSignatureSettles(i, lib) ==
    /\ calls[i].pc = "awaiting"
    /\ calls' = [calls EXCEPT ![i] =
                    [@ EXCEPT !.pc = "settled",
                              !.library = lib,
                              !.outcome = verifyAfterSignature(
                                   internalVerifySignature(lib),
                                   ValueOf(LocalsAfterAwait(i).callbackData.address),
                                   LocalsAfterAwait(i).receivedNonce)]]
    /\ UNCHANGED <<pc, generated, callbackData, verifyOptions, receivedNonce,
                   signatureCalls, outcome, library, mutated, regenerated>>

\* Call i is over
CallReturn(i) ==
    /\ calls[i].pc = "settled"
    /\ calls' = [calls EXCEPT ![i] = NoCall]
    /\ UNCHANGED <<pc, generated, callbackData, verifyOptions, receivedNonce,
                   signatureCalls, outcome, library, mutated, regenerated>>

NextConcurrent ==
    \/ \E i \in CallIds, data \in ConcurrentCallbackData,
          options \in ConcurrentVerifyOptions : CallVerify(i, data, options)
    \/ \E i \in CallIds, lib \in LibraryOutcomes : CallSignatureSettles(i, lib)
    \/ \E i \in CallIds : CallReturn(i)

SpecConcurrent == Init /\ [][NextConcurrent]_vars

\* The single call under the assumption that the signature check
\* eventually returns or throws
SpecLive ==
    Init /\ [][Next]_vars
         /\ WF_vars(\E lib \in LibraryOutcomes : SignatureSettles(lib))

\* ------------------------------------------------------------------------
\* Vocabulary of the properties: the call in progress, read from the state
\* ------------------------------------------------------------------------

InCall == pc \in {"awaiting", "settled"}
ResolvedCall == pc = "settled" /\ outcome.state = "resolved"
RejectedCall == pc = "settled" /\ outcome.state = "rejected"

\* the error kinds of the specification, told apart by their messages
IsMissingInput(e) ==
    IsDigiIDError(e)
    /\ e.message = "Missing required callback data: address, uri, or signature."
IsInvalidUri(e) ==
    IsDigiIDError(e) /\ StartsWith(e.message, "Invalid URI received in callback: ")
IsMalformedChallenge(e) ==
    IsDigiIDError(e) /\ e.message = "URI missing nonce (x) or unsecure (u) parameter."
IsInvalidExpected(e) ==
    IsDigiIDError(e) /\ StartsWith(e.message, "Invalid expectedCallbackUrl provided: ")
IsEndpointMismatch(e) ==
    IsDigiIDError(e) /\ StartsWith(e.message, "Callback URL mismatch: ")
IsSchemeMismatch(e) ==
    IsDigiIDError(e)
    /\ e.message \in
         {"URI indicates unsecure (u=1), but expectedCallbackUrl is not http.",
          "URI indicates secure (u=0), but expectedCallbackUrl is not https."}
IsNonceMismatch(e) ==
    IsDigiIDError(e) /\ StartsWith(e.message, "Nonce mismatch: ")

\* the payload and the expectation of the call, as its checks read them
PayloadComplete ==
    /\ Truthy(callbackData.address)
    /\ Truthy(callbackData.uri)
    /\ Truthy(callbackData.signature)
ReceivedUrl == ParseURL(ReplaceScheme(ValueOf(callbackData.uri)))
ReceivedX == searchParamsGet(ReceivedUrl, "x")
ReceivedU == searchParamsGet(ReceivedUrl, "u")
ChallengeParsed ==
    PayloadComplete /\ ReceivedUrl.ok /\ ReceivedX # <<>> /\ ReceivedU # <<>>
ExpectedUrl == ParseURL(verifyOptions.expectedCallbackUrl.text)
ExpectationParsed ==
    /\ ChallengeParsed
    /\ verifyOptions.expectedCallbackUrl.type # "undefined"
    /\ ExpectedUrl.ok
ReceivedHostPath == ReceivedUrl.host \o ReceivedUrl.pathname
ExpectedHostPath == ExpectedUrl.host \o ExpectedUrl.pathname
EndpointsMatch == ExpectationParsed /\ ReceivedHostPath = ExpectedHostPath

\* the two branches of the code's scheme check
SchemeBranchFails ==
    \/ ValueOf(ReceivedU) = "1" /\ ExpectedUrl.protocol # "http:"
    \/ ValueOf(ReceivedU) = "0" /\ ExpectedUrl.protocol # "https:"

\* the flag and the expected scheme agree
FlagAgreesWithScheme ==
    \/ ValueOf(ReceivedU) = "0" /\ ExpectedUrl.protocol = "https:"
    \/ ValueOf(ReceivedU) = "1" /\ ExpectedUrl.protocol = "http:"

\* the code's nonce check rejects
NonceBranchFails ==
    /\ verifyOptions.expectedNonce # Absent
    /\ ValueOf(verifyOptions.expectedNonce) # ""
    /\ ValueOf(ReceivedX) # ValueOf(verifyOptions.expectedNonce)

\* a check before the signature check fails
EarlierCheckFails ==
    \/ ~ExpectationParsed
    \/ ~EndpointsMatch
    \/ SchemeBranchFails
    \/ NonceBranchFails

LibraryReturnedTrue == library.kind = "returns" /\ library.value = TRUE

\* a nonce that needs no escaping in a query: unreserved characters only
UnreservedChars == Chars(UpperAlpha \o LowerAlpha \o Digits \o "-._~")
QuerySafe(nonce) == nonce # "" /\ AllIn(nonce, UnreservedChars)

\* the call verifies the unchanged URI of the last generateDigiIDUri call,
\* made with an explicit query-safe nonce, against the options of that call
RoundTripCall ==
    /\ InCall
    /\ generated.called /\ ~generated.result.threw
    /\ mutated = "none"
    /\ generated.options.nonce # Absent
    /\ QuerySafe(ValueOf(generated.options.nonce))

\* ------------------------------------------------------------------------
\* Properties
\* ------------------------------------------------------------------------

\* C1: a call that verifies the URI built for (E, N) with a query-safe nonce
\* N, a non-empty address and signature, expectedCallbackUrl = E and
\* expectedNonce = N is never rejected by a check, and with a signature
\* check that returns true it resolves with {isValid: true, address, nonce: N}.
C1_RoundTrip ==
    RoundTripCall =>
        /\ (pc = "settled" /\ library = NoLibrary) => outcome.state # "rejected"
        /\ (pc = "settled" /\ LibraryReturnedTrue) =>
               outcome = Resolved(Address, ValueOf(generated.options.nonce))

\* C2: the call resolves only with isValid = true, only after the signature
\* check was invoked with exactly the payload's unmodified (uri, address,
\* signature) and returned true; a call that has ended in any other way has
\* ended in an error.
C2_SuccessOnlyOnFullSuccess ==
    /\ outcome.state = "resolved" =>
          /\ outcome.isValid = TRUE
          /\ signatureCalls = <<[uri |-> callbackData.uri[1],
                                 address |-> callbackData.address[1],
                                 signature |-> callbackData.signature[1]]>>
          /\ LibraryReturnedTrue
    /\ (pc = "settled" /\ ~LibraryReturnedTrue) => outcome.state = "rejected"

\* a call has resolved after a signature check on a uri that the scheme
\* substitution would have changed
C2_Witness ==
    /\ ResolvedCall
    /\ StartsWith(signatureCalls[1].uri, "digiid:")
    /\ library.kind = "returns"

\* C3: the signature check is not invoked when an earlier check fails, and
\* it is invoked exactly once, with no retry, in every call where all
\* earlier checks pass, whatever it then returns or throws.
C3_SignatureCheckInvocation ==
    InCall =>
        /\ EarlierCheckFails => signatureCalls = <<>>
        /\ ~EarlierCheckFails => Len(signatureCalls) = 1

\* a call has ended after a signature check that threw, and the check was
\* invoked once
C3_Witness ==
    /\ pc = "settled"
    /\ ~EarlierCheckFails
    /\ library.kind = "verify throws"
    /\ Len(signatureCalls) = 1

\* C4: the call gets past the transport check, and resolves, only if u is
\* '0' and the expected scheme is https, or u is '1' and the expected scheme
\* is http.
C4_TransportFlagConsistency ==
    (pc = "awaiting" \/ outcome.state = "resolved") => FlagAgreesWithScheme

\* C5: when the caller supplies expectedNonce, whatever string it is, the
\* call gets past the nonce check, and resolves, only if the nonce received
\* in the uri equals expectedNonce.
C5_NonceCheck ==
    ((pc = "awaiting" \/ outcome.state = "resolved")
        /\ verifyOptions.expectedNonce # Absent) =>
        ValueOf(ReceivedX) = ValueOf(verifyOptions.expectedNonce)

\* C6: with expectedNonce omitted the call never ends in the NonceMismatch
\* error, and when the other checks pass and the signature check returns
\* true it resolves.
C6_NoNonceCheckWhenOmitted ==
    (InCall /\ verifyOptions.expectedNonce = Absent) =>
        /\ ~IsNonceMismatch(outcome.error)
        /\ (pc = "settled" /\ EndpointsMatch /\ ~SchemeBranchFails
              /\ LibraryReturnedTrue) => outcome.state = "resolved"

\* a call without expectedNonce has resolved
C6_Witness ==
    /\ ResolvedCall
    /\ verifyOptions.expectedNonce = Absent
    /\ ValueOf(ReceivedX) = "zzz999"

\* the authority and path of a URL text as written: what stands between
\* the scheme (and its slashes) and the query or fragment
WrittenHostPath(text) ==
    LET rest == StripSlashes(From(text, IndexOf(text, ":") + 1))
        e == FirstNotIn(rest, Chars(rest) \ {"?", "#"}, 1)
    IN IF e = 0 THEN rest ELSE Before(rest, e)

\* C7 as stated: the call gets past the endpoint check only if the
\* authority+path written in the payload's uri equals the host+path written
\* in the expected endpoint, with no normalisation of either side.
C7_EndpointMatchAsWritten ==
    (InCall /\ ExpectationParsed /\ ~IsEndpointMismatch(outcome.error)) =>
        WrittenHostPath(ValueOf(callbackData.uri))
            = WrittenHostPath(verifyOptions.expectedCallbackUrl.text)

\* C7 as amended: the call gets past the endpoint check only if host+pathname
\* of the parsed payload uri equals host+pathname of the parsed expected
\* endpoint as strings, case-sensitively; otherwise it is rejected with the
\* EndpointMismatch error whose message carries both parsed values.
C7_EndpointMatch ==
    (InCall /\ ExpectationParsed /\ ReceivedHostPath # ExpectedHostPath) =>
        /\ pc = "settled"
        /\ outcome = Rejected(DigiIDError(
               "Callback URL mismatch: URI contained \"" \o ReceivedHostPath
                   \o "\", expected \"" \o ExpectedHostPath \o "\"",
               "verifyDigiIDCallback"))

\* a call whose uri names the expected host in another case, under a scheme
\* the parser does not lower-case hosts of, has been rejected with
\* EndpointMismatch
C7_Witness ==
    /\ RejectedCall
    /\ IsEndpointMismatch(outcome.error)
    /\ ToLower(ReceivedHostPath) = ToLower(ExpectedHostPath)

\* the unchanged callback of the generated challenge passes every check
BaseVerifies ==
    ~verifyChecks(IssuedCallbackData(generated), IssuedVerifyOptions(generated)).threw

\* C8: starting from a generated URI that verifies, a change of exactly one
\* of endpoint, transport flag and nonce makes the call reject with the
\* corresponding error, EndpointMismatch, SchemeMismatch or NonceMismatch.
C8_SingleFieldMutation ==
    (InCall /\ mutated # "none" /\ BaseVerifies) =>
        /\ RejectedCall
        /\ mutated = "endpoint" => IsEndpointMismatch(outcome.error)
        /\ mutated = "flag" => IsSchemeMismatch(outcome.error)
        /\ mutated = "nonce" => IsNonceMismatch(outcome.error)

\* C9: a call whose payload lacks address, uri or signature, or has it
\* empty, is rejected with the MissingInput error, whatever the other fields
\* and the options are.
C9_PresenceCheck ==
    (InCall /\ ~PayloadComplete) =>
        /\ pc = "settled"
        /\ outcome = Rejected(DigiIDError(
               "Missing required callback data: address, uri, or signature.",
               "verifyDigiIDCallback"))

\* a call with only the signature empty, and nothing else wrong, has been
\* rejected with MissingInput
C9_Witness ==
    /\ RejectedCall
    /\ IsMissingInput(outcome.error)
    /\ callbackData.signature = Some("")
    /\ Truthy(callbackData.address)
    /\ callbackData.uri = Some("digiid://example.com/callback?x=abc123&u=0")
    /\ verifyOptions.expectedCallbackUrl = ExpectedString("https://example.com/callback")

\* C10: a complete payload whose uri does not parse after the scheme
\* substitution is rejected with the InvalidInput error; one whose uri
\* parses but lacks x or lacks u is rejected with the MalformedChallenge error.
C10_ChallengeParse ==
    (InCall /\ PayloadComplete) =>
        /\ ~ReceivedUrl.ok =>
              pc = "settled" /\ IsInvalidUri(outcome.error)
        /\ (ReceivedUrl.ok /\ (ReceivedX = <<>> \/ ReceivedU = <<>>)) =>
              pc = "settled" /\ IsMalformedChallenge(outcome.error)

\* a call whose uri carries x but no u has been rejected with
\* MalformedChallenge
C10_Witness ==
    /\ RejectedCall
    /\ IsMalformedChallenge(outcome.error)
    /\ ReceivedX # <<>>
    /\ ReceivedU = <<>>

\* the signature check of the call has settled, and what it settled with
SignatureSettled == pc = "settled" /\ library.kind # "not called"
HelperResult == internalVerifySignature(library)

\* C11: when every earlier check passes and the signature check returns
\* false, the call is rejected with the InvalidSignature error
\* 'Invalid signature.' and does not resolve.
C11_InvalidSignature ==
    (InCall /\ ~EarlierCheckFails /\ library.kind = "returns" /\ library.value = FALSE) =>
        /\ pc = "settled"
        /\ outcome = Rejected(DigiIDError("Invalid signature.", "verifyDigiIDCallback"))

\* a call that passed every earlier check, with an expected nonce supplied,
\* has been rejected as InvalidSignature after the check returned false
C11_Witness ==
    /\ RejectedCall
    /\ outcome.error.message = "Invalid signature."
    /\ ~EarlierCheckFails
    /\ Truthy(verifyOptions.expectedNonce)
    /\ library = [kind |-> "returns", value |-> FALSE, message |-> ""]

\* C12: when the signature check throws an error that is a DigiIDError, the
\* call is rejected with that same error object, not with a wrapper of it.
C12_DomainErrorPropagates ==
    (SignatureSettled /\ HelperResult.threw /\ IsDigiIDError(HelperResult.error)) =>
        outcome = Rejected(HelperResult.error)

\* a call has been rejected with the DigiIDError that
\* _internalVerifySignature created
C12_Witness ==
    /\ RejectedCall
    /\ SignatureSettled
    /\ HelperResult.threw
    /\ IsDigiIDError(HelperResult.error)
    /\ outcome.error.origin = "_internalVerifySignature"
    /\ outcome.error.message = "Signature verification failed: Malformed signature"

\* C13: when the signature check throws an error that is not a DigiIDError,
\* the call is rejected with a new DigiIDError whose message is 'Unexpected
\* error during signature verification: ' followed by the message of the
\* error thrown.
C13_UnexpectedErrorWrapped ==
    (SignatureSettled /\ HelperResult.threw /\ ~IsDigiIDError(HelperResult.error)) =>
        /\ outcome.state = "rejected"
        /\ IsDigiIDError(outcome.error)
        /\ outcome.error.origin = "verifyDigiIDCallback"
        /\ outcome.error.message =
              "Unexpected error during signature verification: "
              \o HelperResult.error.message

\* a call has been rejected with the wrapper of the plain Error that
\* require('digibyte-message') threw
C13_Witness ==
    /\ RejectedCall
    /\ SignatureSettled
    /\ HelperResult.threw
    /\ HelperResult.error.name = "Error"
    /\ outcome.error.message =
          "Unexpected error during signature verification: Cannot find module 'digibyte-message'"

\* C14: every failure of generateDigiIDUri and of verifyDigiIDCallback is a
\* DigiIDError, whether expectedCallbackUrl is a string, a URL object or
\* missing.
C14_OnlyDigiIDErrors ==
    /\ (generated.called /\ generated.result.threw) =>
           IsDigiIDError(generated.result.error)
    /\ RejectedCall => IsDigiIDError(outcome.error)

\* C15: a resolved call carries the payload's address as given and the
\* nonce read from the payload's uri, whatever expectedNonce is.
C15_ResultFromPayload ==
    ResolvedCall =>
        /\ outcome.isValid
        /\ outcome.address = ValueOf(callbackData.address)
        /\ outcome.nonce = ValueOf(ReceivedX)

\* a call without expectedNonce has resolved with the nonce of its uri
C15_Witness ==
    /\ ResolvedCall
    /\ verifyOptions.expectedNonce = Absent
    /\ callbackData.uri = Some("digiid://example.com/callback?x=abc123&u=0")
    /\ outcome.nonce = "abc123"
    /\ outcome.address = Address

\* the last generateDigiIDUri call, read from the state
GenerateReturned == generated.called /\ ~generated.result.threw
GenerateThrew == generated.called /\ generated.result.threw
CallbackUrlGiven == generated.called /\ Truthy(generated.options.callbackUrl)
CallbackUrlParsed == ParseURL(ValueOf(generated.options.callbackUrl))
CallbackUrlValid == CallbackUrlGiven /\ CallbackUrlParsed.ok
UnsecureSet == TruthyFlag(generated.options.unsecure)

\* what the returned URI holds between 'digiid://' and its first '?'
OutputHostPath ==
    SubSeq(generated.result.uri, Len("digiid://") + 1,
           IndexOf(generated.result.uri, "?") - 1)

\* C16: for a valid https callbackUrl with unsecure unset or false the
\* returned URI ends in '&u=0'; for a valid http callbackUrl with unsecure
\* true it ends in '&u=1'.
C16_FlagOfGeneratedUri ==
    CallbackUrlValid =>
        /\ (CallbackUrlParsed.protocol = "https:" /\ ~UnsecureSet) =>
              GenerateReturned /\ EndsWith(generated.result.uri, "&u=0")
        /\ (CallbackUrlParsed.protocol = "http:" /\ UnsecureSet) =>
              GenerateReturned /\ EndsWith(generated.result.uri, "&u=1")

\* an http endpoint with unsecure = true has produced a URI ending in '&u=1'
C16_Witness ==
    /\ GenerateReturned
    /\ generated.options.callbackUrl = Some("http://localhost:3000/login")
    /\ generated.options.unsecure = Some(TRUE)
    /\ EndsWith(generated.result.uri, "&u=1")

\* C17: with unsecure true a callbackUrl of any scheme but http fails with
\* the first SchemeMismatch message, with unsecure false or unset one of any
\* scheme but https fails with the second; a returned URI carries the flag
\* of its endpoint's scheme, 1 for http and 0 for https.
C17_GeneratorSchemeCheck ==
    CallbackUrlValid =>
        /\ (UnsecureSet /\ CallbackUrlParsed.protocol # "http:") =>
              /\ GenerateThrew
              /\ generated.result.error =
                    DigiIDError("Unsecure flag is true, but callback URL does not use http protocol.",
                                "generateDigiIDUri")
        /\ (~UnsecureSet /\ CallbackUrlParsed.protocol # "https:") =>
              /\ GenerateThrew
              /\ generated.result.error =
                    DigiIDError("Callback URL must use https protocol unless unsecure flag is set to true.",
                                "generateDigiIDUri")
        /\ GenerateReturned =>
              \/ FlagOf(generated.result.uri) = "1" /\ CallbackUrlParsed.protocol = "http:"
              \/ FlagOf(generated.result.uri) = "0" /\ CallbackUrlParsed.protocol = "https:"

\* an ftp endpoint with unsecure = true has failed with the first message
C17_Witness ==
    /\ GenerateThrew
    /\ generated.options.callbackUrl = Some("ftp://example.com/callback")
    /\ generated.options.unsecure = Some(TRUE)
    /\ generated.result.error.message =
          "Unsecure flag is true, but callback URL does not use http protocol."

\* C18: an absent or empty callbackUrl fails with 'Callback URL is
\* required.', an unparseable one with 'Invalid callback URL: ' and the
\* parser's message, in this order and before any scheme check, whatever
\* nonce and unsecure are.
C18_GeneratorInputChecks ==
    generated.called =>
        /\ ~CallbackUrlGiven =>
              /\ GenerateThrew
              /\ generated.result.error =
                    DigiIDError("Callback URL is required.", "generateDigiIDUri")
        /\ (CallbackUrlGiven /\ ~CallbackUrlParsed.ok) =>
              /\ GenerateThrew
              /\ generated.result.error =
                    DigiIDError("Invalid callback URL: " \o InvalidURLMessage,
                                "generateDigiIDUri")

\* an unparseable callbackUrl, which no scheme check would accept either,
\* has failed as InvalidInput with unsecure unset
C18_Witness ==
    /\ GenerateThrew
    /\ generated.options.callbackUrl = Some("invalid-url")
    /\ generated.options.unsecure = Absent
    /\ generated.result.error.message = "Invalid callback URL: Invalid URL"

\* C19: a returned URI is 'digiid://' + host + path + '?x=' + nonce + '&u='
\* + flag, with the host and path of the parsed callbackUrl and nothing of
\* its scheme, query or fragment, the flag 0 or 1, and the nonce supplied by
\* the caller inserted as it is.
C19_WireFormat ==
    GenerateReturned =>
        /\ \E flag \in {"0", "1"} :
              generated.result.uri =
                  "digiid://" \o CallbackUrlParsed.host \o CallbackUrlParsed.pathname
                  \o "?x=" \o generated.result.nonce \o "&u=" \o flag
        /\ OutputHostPath = CallbackUrlParsed.host \o CallbackUrlParsed.pathname
        /\ IndexOf(OutputHostPath, "#") = 0
        /\ Truthy(generated.options.nonce) =>
              generated.result.nonce = ValueOf(generated.options.nonce)

\* a callbackUrl with a query and a fragment and a nonce with reserved
\* characters have produced the URI without the former and with the latter
\* unescaped
C19_Witness ==
    /\ GenerateReturned
    /\ generated.options.callbackUrl = Some("https://example.com/callback?next=home#top")
    /\ generated.options.nonce = Some("a%62c+123")
    /\ generated.result.uri = "digiid://example.com/callback?x=a%62c+123&u=0"

\* C20: the part of a returned URI between 'digiid://' and '?x=' ends with
\* '/' exactly when the host+path written in callbackUrl does.
C20_TrailingSlashVerbatim ==
    GenerateReturned =>
        (EndsWith(OutputHostPath, "/")
           <=> EndsWith(WrittenHostPath(ValueOf(generated.options.callbackUrl)), "/"))

\* the x parameter of a returned URI, as written between '?x=' and the
\* closing '&u=' and flag
OutputX ==
    SubSeq(generated.result.uri, IndexOf(generated.result.uri, "?") + 3,
           Len(generated.result.uri) - 4)

\* C21: when the caller supplies a nonce, whatever string it is, the x
\* parameter of the returned URI is that string and the random source is not
\* consulted; when none is supplied, x is 32 lower-case hexadecimal digits,
\* the encoding of the 16 bytes drawn.
C21_NonceResolution ==
    GenerateReturned =>
        /\ generated.options.nonce # Absent =>
              /\ OutputX = ValueOf(generated.options.nonce)
              /\ ~generated.result.drew
        /\ generated.options.nonce = Absent =>
              /\ generated.result.drew
              /\ Len(OutputX) = 2 * NonceBytes
              /\ AllIn(OutputX, Chars(HexDigitsLower))

\* host + pathname read back from the returned URI the way the verifier
\* reads them: after the scheme substitution
ReadBackUrl == ParseURL(ReplaceScheme(generated.result.uri))

\* C23: for an accepted callbackUrl with a non-empty path and no query or
\* fragment, host + pathname read back from the returned URI equal host +
\* pathname of the callbackUrl, an explicit port included.
C23_AuthorityPathRoundTrip ==
    (/\ GenerateReturned
     /\ IndexOf(WrittenHostPath(ValueOf(generated.options.callbackUrl)), "/") # 0
     /\ IndexOf(ValueOf(generated.options.callbackUrl), "?") = 0
     /\ IndexOf(ValueOf(generated.options.callbackUrl), "#") = 0) =>
        ReadBackUrl.host \o ReadBackUrl.pathname
            = CallbackUrlParsed.host \o CallbackUrlParsed.pathname

\* the error of the signature step: a false result, or what the catch block
\* makes of an error thrown
IsSignatureStepError(e) ==
    IsDigiIDError(e)
    /\ \/ e.message = "Invalid signature."
       \/ StartsWith(e.message, "Signature verification failed: ")
       \/ StartsWith(e.message, "Unexpected error during signature verification: ")

\* C24: the error of a call is that of the first step that fails, in the
\* order presence, challenge parse, x/u, expectation parse, endpoint,
\* transport, nonce, signature; a failing step hides every later one.
C24_PipelineOrder ==
    InCall =>
        /\ ~PayloadComplete => RejectedCall /\ IsMissingInput(outcome.error)
        /\ (PayloadComplete /\ ~ReceivedUrl.ok) =>
              RejectedCall /\ IsInvalidUri(outcome.error)
        /\ (PayloadComplete /\ ReceivedUrl.ok /\ ~ChallengeParsed) =>
              RejectedCall /\ IsMalformedChallenge(outcome.error)
        /\ (ChallengeParsed /\ verifyOptions.expectedCallbackUrl.type = "string"
               /\ ~ExpectedUrl.ok) =>
              RejectedCall /\ IsInvalidExpected(outcome.error)
        /\ (ExpectationParsed /\ ~EndpointsMatch) =>
              RejectedCall /\ IsEndpointMismatch(outcome.error)
        /\ (EndpointsMatch /\ SchemeBranchFails) =>
              RejectedCall /\ IsSchemeMismatch(outcome.error)
        /\ (EndpointsMatch /\ ~SchemeBranchFails /\ NonceBranchFails) =>
              RejectedCall /\ IsNonceMismatch(outcome.error)
        /\ (~EarlierCheckFails /\ RejectedCall) => IsSignatureStepError(outcome.error)

\* a call in which the endpoint, the transport flag and the nonce are all
\* wrong has been rejected with the endpoint's error
C24_Witness ==
    /\ RejectedCall
    /\ IsEndpointMismatch(outcome.error)
    /\ ExpectationParsed
    /\ ~EndpointsMatch
    /\ SchemeBranchFails
    /\ NonceBranchFails

\* C26: a call awaiting the signature check has passed every earlier check;
\* a call rejected by an earlier check never called nor awaited the
\* signature check; and what the call settles with after the await is the
\* result or an error of the signature step, never a validation error.
C26_SingleSuspensionPoint ==
    /\ pc = "awaiting" => ~EarlierCheckFails /\ outcome = Pending
    /\ (RejectedCall /\ ~IsSignatureStepError(outcome.error)) =>
           signatureCalls = <<>> /\ library = NoLibrary
    /\ SignatureSettled =>
           ResolvedCall \/ (RejectedCall /\ IsSignatureStepError(outcome.error))

\* a call is suspended on the signature check with its nonce check passed
C26_Witness ==
    /\ pc = "awaiting"
    /\ Len(signatureCalls) = 1
    /\ Truthy(verifyOptions.expectedNonce)
    /\ ValueOf(ReceivedX) = ValueOf(verifyOptions.expectedNonce)

\* C29: the signature check is invoked, and so the call resolves, only for
\* a payload uri that begins with 'digiid://'.
C29_CustomSchemeOnly ==
    (InCall /\ (ResolvedCall \/ signatureCalls # <<>>)) =>
        StartsWith(ValueOf(callbackData.uri), "digiid://")

\* the x parameter as written in a uri whose query begins with it: the
\* characters between 'x=' and the next '&'
WrittenX(uri) ==
    SubSeq(uri, IndexOf(uri, "?") + 3,
           IF IndexFrom(uri, "&", IndexOf(uri, "?")) = 0 THEN Len(uri)
           ELSE IndexFrom(uri, "&", IndexOf(uri, "?")) - 1)

\* the query of the uri begins with the x parameter
XWrittenFirst(uri) ==
    /\ IndexOf(uri, "?") # 0
    /\ SubSeq(uri, IndexOf(uri, "?") + 1, IndexOf(uri, "?") + 2) = "x="

\* C30: the nonce a resolved call returns is the x parameter as written in
\* the payload's uri, not decoded in any way.
C30_NonceAsWritten ==
    (ResolvedCall /\ XWrittenFirst(ValueOf(callbackData.uri))) =>
        outcome.nonce = WrittenX(ValueOf(callbackData.uri))

\* C22: a second call with the same options, an explicit nonce among them,
\* returns the same URI or fails with the same error as the first, whatever
\* the random source returns and whatever was called in between.
C22_BuilderDeterminism ==
    (pc = "regenerated" /\ generated.options.nonce # Absent) =>
        /\ regenerated.threw = generated.result.threw
        /\ regenerated.uri = generated.result.uri
        /\ regenerated.error = generated.result.error

\* the two MissingInput and InvalidInput failures of generateDigiIDUri
IsGeneratorInputError(e) ==
    IsDigiIDError(e)
    /\ \/ e.message = "Callback URL is required."
       \/ StartsWith(e.message, "Invalid callback URL: ")

\* the two SchemeMismatch failures of generateDigiIDUri
IsGeneratorSchemeError(e) ==
    IsDigiIDError(e)
    /\ e.message \in
         {"Unsecure flag is true, but callback URL does not use http protocol.",
          "Callback URL must use https protocol unless unsecure flag is set to true."}

\* C28: generateDigiIDUri consults the random source only when no nonce is
\* supplied, never in a call that fails with MissingInput or InvalidInput,
\* and before the scheme check, so that a call without a nonce that fails
\* with SchemeMismatch has consulted it.
C28_EntropyConsumption ==
    generated.called =>
        /\ generated.result.drew => generated.options.nonce = Absent
        /\ (GenerateThrew /\ IsGeneratorInputError(generated.result.error)) =>
              ~generated.result.drew
        /\ (generated.options.nonce = Absent
               /\ (GenerateReturned
                     \/ (GenerateThrew /\ IsGeneratorSchemeError(generated.result.error)))) =>
              generated.result.drew

\* what a call with this payload, these options and this behaviour of the
\* signature library settles with when it is the only call
OutcomeAlone(data, options, lib) ==
    IF verifyChecks(data, options).threw
    THEN Rejected(verifyChecks(data, options).error)
    ELSE verifyAfterSignature(internalVerifySignature(lib), ValueOf(data.address),
                              verifyChecks(data, options).receivedNonce)

\* C25: whatever calls are in flight and in whatever order their signature
\* checks complete, each call settles with what it would settle with alone,
\* given its own payload, options and signature check, and a step of one
\* call changes nothing of another call.
C25_ConcurrentCallsIndependent ==
    /\ [](\A i \in CallIds :
             calls[i].pc = "settled" =>
                calls[i].outcome = OutcomeAlone(calls[i].callbackData,
                                                calls[i].verifyOptions,
                                                calls[i].library))
    /\ [][\A i \in CallIds :
             calls'[i] # calls[i] =>
                \A j \in CallIds \ {i} : calls'[j] = calls[j]]_vars

\* the second call has resolved with its own address and nonce while the
\* first, begun with another nonce, is still awaiting its signature check
C25_Witness ==
    /\ calls[1].pc = "awaiting"
    /\ calls[1].receivedNonce = "zzz999"
    /\ calls[2].pc = "settled"
    /\ calls[2].outcome = Resolved(Address, "abc123")

\* C27: a call awaiting its signature check eventually settles, given that
\* the check eventually returns or throws; a settled call is resolved or
\* rejected and its outcome never changes again; and a call that fails an
\* earlier check is settled without having called the signature check.
C27_EventuallySettlesOnce ==
    /\ (pc = "awaiting") ~> (pc = "settled")
    /\ [](pc = "settled" => outcome.state \in {"resolved", "rejected"})
    /\ [][pc = "settled" =>
             /\ pc' # "awaiting"
             /\ pc' = "settled" => outcome' = outcome]_vars
    /\ []((InCall /\ EarlierCheckFails) =>
             (pc = "settled" /\ signatureCalls = <<>>))

\* a call that had to wait for its signature check has settled
C27_Witness ==
    /\ pc = "settled"
    /\ Len(signatureCalls) = 1
    /\ library.kind # "not called"
    /\ outcome.state \in {"resolved", "rejected"}

====
